---- MODULE Spec2Model ----
(***************************************************************************)
(* ReviewX: an HTTP service over one SQLite table of reviews (main.go).    *)
(* The model follows the handlers of main.go step by step: the part of a   *)
(* handler that runs before mutex.Lock() is one step, and the section      *)
(* between mutex.Lock() and the deferred mutex.Unlock() is split where     *)
(* another goroutine could observe shared state (idCounter, the table).    *)
(***************************************************************************)
EXTENDS Integers, Sequences, FiniteSets, TLC

\* ------------------------------------------------------------------ bounds
MaxId == 2             \* creates are admitted while they keep idCounter and the engine's sequence within this

\* The goroutines serving requests at the same time.
Workers == {1, 2}

\* ------------------------------------------------------------- HTTP inputs
Methods == {"GET", "POST", "DELETE", "OPTIONS", "PUT"}
Paths == {"/reviews", "/delete-review"}
Ratings == {0, 1, 5, 6}

NoPayload == [malformed |-> FALSE, name |-> "", review |-> "", rating |-> 0, id |-> 0]
MalformedPayload == [NoPayload EXCEPT !.malformed = TRUE]
PostPayloads ==
    {MalformedPayload} \cup
    {[NoPayload EXCEPT !.name = IF r = 1 THEN "" ELSE "Ann",
                       !.review = "Great", !.rating = r] : r \in Ratings}
DeletePayloads ==
    {MalformedPayload} \cup {[NoPayload EXCEPT !.id = i] : i \in 0..MaxId}

\* The request bodies a client sends with a method on a path.
Payloads(m, p) ==
    IF m = "POST" /\ p = "/reviews" THEN PostPayloads
    ELSE IF m = "DELETE" /\ p = "/delete-review" THEN DeletePayloads
    ELSE {NoPayload}

\* ------------------------------------------------------------ HTTP outputs
CORSHeaders ==
    {"Access-Control-Allow-Origin", "Access-Control-Allow-Methods",
     "Access-Control-Allow-Headers"}

NoBody == [kind |-> "none", items |-> <<>>, id |-> 0, text |-> ""]
TextBody(t) == [NoBody EXCEPT !.kind = "text", !.text = t]
JSONNull == [NoBody EXCEPT !.kind = "null"]
JSONArray(s) == [NoBody EXCEPT !.kind = "array", !.items = s]
JSONSuccessID(i) == [NoBody EXCEPT !.kind = "success-id", !.id = i]
JSONSuccess == [NoBody EXCEPT !.kind = "success"]
JSONError(t) == [NoBody EXCEPT !.kind = "error", !.text = t]

NoResponse == [status |-> 0, body |-> NoBody, headers |-> {}]

\* http.Error: plain text body with a status code.
HttpError(hdrs, t, code) ==
    [status |-> code, body |-> TextBody(t),
     headers |-> hdrs \cup {"Content-Type", "X-Content-Type-Options"}]

\* respondWithJSON: Content-Type, status, marshalled payload.
RespondWithJSON(hdrs, code, b) ==
    [status |-> code, body |-> b, headers |-> hdrs \cup {"Content-Type"}]

\* json.NewEncoder(w).Encode(reviews): a nil slice is written as null, any
\* other slice as an array of its elements.
EncodeReviews(sl) == IF sl.isNil THEN JSONNull ELSE JSONArray(sl.elems)

\* ------------------------------------------------------------------- state
VARIABLES
    rows,        \* table reviews: set of [id, name, review, rating]
    seq,         \* the engine's AUTOINCREMENT high-water mark (sqlite_sequence)
    idCounter,   \* var idCounter
    mutex,       \* var mutex: 0 when free, else the worker holding it
    req,         \* per worker: position in its handler, request, locals, response
    issued,      \* history: ids assigned by handlePostReview in this process lifetime, in order
    prevIssued,  \* history: ids assigned in earlier process lifetimes
    created      \* history: successful creates whose row is still stored

vars == <<rows, seq, idCounter, mutex, req, issued, prevIssued, created>>

Idle ==
    [pc |-> "idle", method |-> "", path |-> "", payload |-> NoPayload,
     tmp |-> 0, resp |-> NoResponse]

\* --------------------------------------------------------------- the store
SetMax(S) == CHOOSE x \in S : \A y \in S : y <= x

RowIds(t) == {r.id : r \in t}

\* SELECT MAX(id) FROM reviews: NULL on an empty table.
MaxID(t) == IF t = {} THEN [valid |-> FALSE, int64 |-> 0]
            ELSE [valid |-> TRUE, int64 |-> SetMax(RowIds(t))]

\* A faulty loadIDCounter that counts the rows instead of taking MAX(id).
LoadIDCounterByCount(t, counter) == Cardinality(t)

\* loadIDCounter: the counter keeps its value when MAX(id) is NULL.
LoadIDCounter(t, counter) ==
    IF MaxID(t).valid THEN MaxID(t).int64 ELSE counter

\* The id INTEGER PRIMARY KEY AUTOINCREMENT gives a row inserted without an id:
\* one more than the largest id the table has ever held.
AutoIncrement(t, s) ==
    (IF t = {} THEN s ELSE IF SetMax(RowIds(t)) > s THEN SetMax(RowIds(t)) ELSE s) + 1

\* saveReview: INSERT INTO reviews (name, review, rating) VALUES (?, ?, ?).
\* The statement carries no id: review.ID is not sent to the engine.
SaveReview(t, s, review) ==
    [id |-> AutoIncrement(t, s), name |-> review.name,
     review |-> review.review, rating |-> review.rating]

\* Faulty DELETE statements: WHERE id <= ?, and no WHERE clause.
DeleteRowsUpTo(t, id) == {r \in t : r.id > id}

DeleteRowsAll(t, id) == {}

\* deleteReview: DELETE FROM reviews WHERE id = ?; the rows it leaves.
DeleteRows(t, id) == {r \in t : r.id # id}
RowsAffected(t, id) == Cardinality({r \in t : r.id = id})
\* A faulty deleteReview that does not look at RowsAffected.
DeleteReviewErrUnchecked(t, id) == FALSE

\* deleteReview's error: TRUE when no row was affected.
DeleteReviewErr(t, id) == RowsAffected(t, id) = 0

\* A faulty Scan with the name and review destinations exchanged.
ScanRowSwapped(r) == [id |-> r.id, name |-> r.review, review |-> r.name, rating |-> r.rating]

\* loadReviews: rows.Scan into Review fields, appended to a nil slice in
\* the table's id order.
ScanRow(r) == [id |-> r.id, name |-> r.name, review |-> r.review, rating |-> r.rating]

RECURSIVE AppendRows(_, _)
AppendRows(sl, t) ==
    IF t = {} THEN sl
    ELSE LET r == CHOOSE x \in t : \A y \in t : x.id <= y.id
         IN AppendRows([isNil |-> FALSE, elems |-> Append(sl.elems, ScanRow(r))],
                       t \ {r})

LoadReviews(t) == AppendRows([isNil |-> TRUE, elems |-> <<>>], t)

\* ---------------------------------------------------------------- handlers
\* Faulty rating checks: off by one at the lower, and at the upper, bound.
InvalidRatingBelowZero(r) == r < 0 \/ r > 5

InvalidRatingAboveSix(r) == r < 1 \/ r > 6

\* handlePostReview's rating check.
InvalidRating(r) == r < 1 \/ r > 5

\* A faulty withCORS that passes a preflight on to the handler.
PreflightIgnored(m) == FALSE

\* withCORS answers a preflight itself.
IsPreflight(m) == m = "OPTIONS"

\* A faulty deleteReviewHandler without its method check.
MethodUnchecked(m) == FALSE

\* deleteReviewHandler's method check: r.Method != http.MethodDelete.
NotDelete(m) == m # "DELETE"

\* A faulty handler that ignores the error of json Decode.
DecodeErrIgnored(b) == FALSE

\* json.NewDecoder(r.Body).Decode(...) returns an error.
DecodeErr(b) == b.malformed

\* What a request does before it touches the mutex: withCORS, the method
\* switch, json Decode and validation.  The result is the worker's next
\* position and, when the request ends here, its response.
PreLock(m, p, b) ==
    IF IsPreflight(m)
    THEN [pc |-> "done",
          resp |-> [status |-> 200, body |-> NoBody, headers |-> CORSHeaders]]
    ELSE IF p = "/reviews"
    THEN IF m = "POST"
         THEN IF DecodeErr(b)
              THEN [pc |-> "done",
                    resp |-> HttpError(CORSHeaders, "Invalid request payload", 400)]
              ELSE IF InvalidRating(b.rating)
              THEN [pc |-> "done",
                    resp |-> HttpError(CORSHeaders,
                                 "Invalid rating value. Must be between 1 and 5.", 400)]
              ELSE [pc |-> "lock", resp |-> NoResponse]
         ELSE IF m = "GET"
         THEN [pc |-> "lock",
               resp |-> [NoResponse EXCEPT !.headers = CORSHeaders \cup {"Content-Type"}]]
         ELSE [pc |-> "done",
               resp |-> HttpError(CORSHeaders, "Method not allowed", 405)]
    ELSE IF NotDelete(m)
         THEN [pc |-> "done",
               resp |-> RespondWithJSON(CORSHeaders, 405, JSONError("Method not allowed"))]
         ELSE IF DecodeErr(b)
         THEN [pc |-> "done",
               resp |-> RespondWithJSON(CORSHeaders, 400,
                            JSONError("Invalid request payload"))]
         ELSE [pc |-> "lock", resp |-> NoResponse]

\* ----------------------------------------------------------------- actions
Init ==
    /\ rows = {}
    /\ seq = 0
    /\ idCounter = LoadIDCounter({}, 0)
    /\ mutex = 0
    /\ req = [w \in Workers |-> Idle]
    /\ issued = <<>>
    /\ prevIssued = {}
    /\ created = {}

\* The creates that have passed validation and not yet stored the counter.
InFlightCreates ==
    Cardinality({v \in Workers :
                    req[v].method = "POST" /\ req[v].pc \in {"lock", "cs", "save"}})

\* A request arrives on a free worker and runs up to mutex.Lock(), or to
\* its response when it ends before that.  A create that passes validation
\* is taken only while the creates in flight keep the ids within MaxId.
Request(w, m, p, b) ==
    /\ req[w].pc = "idle"
    /\ LET pre == PreLock(m, p, b)
       IN /\ (m = "POST" /\ pre.pc = "lock")
             => /\ idCounter + InFlightCreates < MaxId
                /\ seq + InFlightCreates < MaxId
          /\ req' = [req EXCEPT ![w] =
                    [Idle EXCEPT !.pc = pre.pc, !.method = m, !.path = p,
                                 !.payload = b, !.resp = pre.resp]]
    /\ UNCHANGED <<rows, seq, idCounter, mutex, issued, prevIssued, created>>

\* A handler that answered before mutex.Lock() returns.
Return(w) ==
    /\ req[w].pc = "done"
    /\ req' = [req EXCEPT ![w] = Idle]
    /\ UNCHANGED <<rows, seq, idCounter, mutex, issued, prevIssued, created>>

\* A faulty mutex.Lock() that returns without waiting.
LockNeverBlocks(w) == TRUE

\* mutex.Lock() returns once the mutex is free.
LockFree(w) == mutex = 0

MutexLock(w) ==
    /\ req[w].pc = "lock"
    /\ LockFree(w)
    /\ mutex' = w
    /\ req' = [req EXCEPT ![w].pc = "cs"]
    /\ UNCHANGED <<rows, seq, idCounter, issued, prevIssued, created>>

\* idCounter++ reads the counter ...
PostIncrement(w) ==
    /\ req[w].pc = "cs"
    /\ req[w].method = "POST"
    /\ req' = [req EXCEPT ![w].tmp = idCounter, ![w].pc = "save"]
    /\ UNCHANGED <<rows, seq, idCounter, mutex, issued, prevIssued, created>>

\* A faulty increment that stores the value it read.
NextIDNotAdvanced(read) == read

\* The value idCounter++ stores.
NextID(read) == read + 1

\* A faulty handler that unlocks before its successful return only.
UnlockOnSuccessOnly(status) == IF status = 200 THEN "unlock" ELSE "returned"

\* defer mutex.Unlock(): whatever the response, the handler's next step is
\* the unlock.
DeferredUnlock(status) == "unlock"

\* ... and stores it back; newReview.ID = idCounter; saveReview; the response.
\* ok is whether the INSERT succeeds.
PostSave(w, ok) ==
    /\ req[w].pc = "save"
    /\ LET id == NextID(req[w].tmp)
           hdrs == req[w].resp.headers \cup CORSHeaders
           row == SaveReview(rows, seq, req[w].payload)
       IN /\ idCounter' = id
          /\ issued' = Append(issued, id)
          /\ IF ok
             THEN /\ rows' = rows \cup {row}
                  /\ seq' = row.id
                  /\ created' = created \cup
                        {[ret |-> id, row |-> row.id, name |-> req[w].payload.name,
                          review |-> req[w].payload.review,
                          rating |-> req[w].payload.rating]}
                  /\ req' = [req EXCEPT ![w].pc = DeferredUnlock(200),
                               ![w].resp = [status |-> 200, body |-> JSONSuccessID(id),
                                            headers |-> hdrs \cup {"Content-Type"}]]
             ELSE /\ UNCHANGED <<rows, seq, created>>
                  /\ req' = [req EXCEPT ![w].pc = DeferredUnlock(500),
                               ![w].resp = HttpError(hdrs, "Failed to save review", 500)]
    /\ UNCHANGED <<mutex, prevIssued>>

\* handleGetReviews between Lock and Unlock.  ok is whether the query succeeds.
GetLoad(w, ok) ==
    /\ req[w].pc = "cs"
    /\ req[w].method = "GET"
    /\ req' = [req EXCEPT ![w].pc = DeferredUnlock(IF ok THEN 200 ELSE 500),
                 ![w].resp =
                    IF ok
                    THEN [status |-> 200, body |-> EncodeReviews(LoadReviews(rows)),
                          headers |-> req[w].resp.headers]
                    ELSE HttpError(req[w].resp.headers, "Failed to load reviews", 500)]
    /\ UNCHANGED <<rows, seq, idCounter, mutex, issued, prevIssued, created>>

\* The two errors deleteReviewHandler reports with status 500.
NotFoundText == "Failed to delete review: no review found with id"
StorageErrorText == "Failed to delete review: storage error"

\* deleteReviewHandler between Lock and Unlock.  ok is whether the statement
\* executes without a storage error.
DeleteExec(w, ok) ==
    /\ req[w].pc = "cs"
    /\ req[w].method = "DELETE"
    /\ LET id == req[w].payload.id
       IN IF ok /\ ~DeleteReviewErr(rows, id)
          THEN /\ rows' = DeleteRows(rows, id)
               /\ created' = {c \in created : c.row # id}
               /\ req' = [req EXCEPT ![w].pc = DeferredUnlock(200),
                            ![w].resp = RespondWithJSON(CORSHeaders, 200, JSONSuccess)]
          ELSE /\ rows' = IF ok THEN DeleteRows(rows, id) ELSE rows
               /\ UNCHANGED created
               /\ req' = [req EXCEPT ![w].pc = DeferredUnlock(500),
                            ![w].resp = RespondWithJSON(CORSHeaders, 500,
                                            JSONError(IF ok THEN NotFoundText
                                                      ELSE StorageErrorText))]
    /\ UNCHANGED <<seq, idCounter, mutex, issued, prevIssued>>

\* The deferred mutex.Unlock(), after the response is written; the handler
\* returns.
MutexUnlock(w) ==
    /\ req[w].pc = "unlock"
    /\ mutex' = 0
    /\ req' = [req EXCEPT ![w] = Idle]
    /\ UNCHANGED <<rows, seq, idCounter, issued, prevIssued, created>>

\* The process stops and main runs again on the same reviews.db: requests
\* in flight are lost, var idCounter = 0, then loadIDCounter.
Restart ==
    /\ idCounter' = LoadIDCounter(rows, 0)
    /\ mutex' = 0
    /\ req' = [w \in Workers |-> Idle]
    /\ prevIssued' = prevIssued \cup {issued[i] : i \in 1..Len(issued)}
    /\ issued' = <<>>
    /\ UNCHANGED <<rows, seq, created>>

Next ==
    \/ \E w \in Workers, m \in Methods, p \in Paths :
          \E b \in Payloads(m, p) : Request(w, m, p, b)
    \/ \E w \in Workers : Return(w)
    \/ \E w \in Workers : MutexLock(w)
    \/ \E w \in Workers : PostIncrement(w)
    \/ \E w \in Workers, ok \in BOOLEAN : PostSave(w, ok)
    \/ \E w \in Workers, ok \in BOOLEAN : GetLoad(w, ok)
    \/ \E w \in Workers, ok \in BOOLEAN : DeleteExec(w, ok)
    \/ \E w \in Workers : MutexUnlock(w)
    \/ Restart

Spec == Init /\ [][Next]_vars

\* The running server alone, with the scheduling it can count on: a
\* goroutine that can take its next step takes it, and sync.Mutex hands the
\* lock to a waiter that keeps waiting (its starvation mode), so a waiter
\* that can get the lock again and again does get it.  Clients need not send
\* requests, and the process is not stopped.
Serve ==
    \/ \E w \in Workers, m \in Methods, p \in Paths :
          \E b \in Payloads(m, p) : Request(w, m, p, b)
    \/ \E w \in Workers : Return(w)
    \/ \E w \in Workers : MutexLock(w)
    \/ \E w \in Workers : PostIncrement(w)
    \/ \E w \in Workers, ok \in BOOLEAN : PostSave(w, ok)
    \/ \E w \in Workers, ok \in BOOLEAN : GetLoad(w, ok)
    \/ \E w \in Workers, ok \in BOOLEAN : DeleteExec(w, ok)
    \/ \E w \in Workers : MutexUnlock(w)

HandlerStep(w) ==
    \/ Return(w)
    \/ PostIncrement(w)
    \/ \E ok \in BOOLEAN : PostSave(w, ok)
    \/ \E ok \in BOOLEAN : GetLoad(w, ok)
    \/ \E ok \in BOOLEAN : DeleteExec(w, ok)
    \/ MutexUnlock(w)

LiveSpec ==
    /\ Init
    /\ [][Serve]_vars
    /\ \A w \in Workers : WF_vars(HandlerStep(w)) /\ SF_vars(MutexLock(w))

\* ------------------------------------------------------- steps of a request
\* Worker w's request arrives in this step.
Arrives(w) == req[w].pc = "idle" /\ req'[w].pc # "idle"

\* Worker w's create assigns its id and inserts in this step.
Issues(w) == req[w].pc = "save" /\ req'[w].pc = "unlock"

\* Worker w's delete executes in this step.
Deletes(w) == req[w].pc = "cs" /\ req[w].method = "DELETE" /\ req'[w].pc = "unlock"

\* Worker w's list reads the table in this step.
Lists(w) == req[w].pc = "cs" /\ req[w].method = "GET" /\ req'[w].pc = "unlock"

StoreAndCounterUnchanged == rows' = rows /\ seq' = seq /\ idCounter' = idCounter

\* The ids of a sequence of ids.
Range(s) == {s[i] : i \in 1..Len(s)}

\* ------------------------------------------------------------------ claims
\* C1: within one process lifetime the ids assigned to creates (inserted or
\* failed) are strictly increasing in the order they are assigned, so no two
\* creates get the same id, whatever the interleaving of concurrent creates.
C1_IdsStrictlyIncreasing ==
    \A i, j \in 1..Len(issued) : i < j => issued[i] < issued[j]

C1_Witness ==
    /\ Len(issued) >= 2
    /\ \E w \in Workers : req[w].pc = "unlock" /\ req[w].method = "POST"

\* C2: the id a successful create returns to the client is the id of the row
\* stored for it, after any creates, deletes, failed inserts and restarts.
C2_ReturnedIdIsStoredId ==
    \A c \in created : c.ret = c.row

\* C3: a delete of an id that a successful create returned, whose review is
\* still stored, answers 200 (unless the statement itself fails) and leaves
\* no such review in the table.
C3_DeleteOfReturnedIdSucceeds ==
    [][\A w \in Workers :
          (/\ Deletes(w)
           /\ \E c \in created : c.ret = req[w].payload.id
           /\ req'[w].resp.body.text # StorageErrorText)
          => /\ req'[w].resp.status = 200
             /\ \A c \in created :
                   c.ret = req[w].payload.id => c.row \notin RowIds(rows')]_vars

\* C4: a restart keeps every stored review in List's result, and the first
\* id assigned after the restart is greater than every id assigned in earlier
\* process lifetimes, the ids of deleted reviews included.
C4_RestartKeepsReviewsAndIdsGrow ==
    [][/\ Restart =>
            \A c \in created :
               \E i \in 1..Len(LoadReviews(rows').elems) :
                  LoadReviews(rows').elems[i].id = c.row
       /\ \A w \in Workers :
            (Issues(w) /\ issued = <<>>) =>
               \A i \in prevIssued : idCounter' > i]_vars

\* C5: a List of an empty table answers 200 with an empty array as its body
\* (when the query itself does not fail).
C5_EmptyListIsEmptyArray ==
    \A w \in Workers :
       (/\ req[w].pc = "unlock"
        /\ req[w].method = "GET"
        /\ rows = {}
        /\ req[w].resp.status # 500)
       => /\ req[w].resp.status = 200
          /\ req[w].resp.body = JSONArray(<<>>)

\* C6: a create with a rating outside 1..5 answers 400 at once and changes
\* neither the table nor the counter; a create with a rating in 1..5 goes on
\* to the insert and answers 200 with its id when the insert succeeds.
C6_RatingValidation ==
    [][\A w \in Workers :
          /\ (/\ Arrives(w)
              /\ req'[w].method = "POST"
              /\ req'[w].path = "/reviews"
              /\ ~req'[w].payload.malformed)
             => IF req'[w].payload.rating \in 1..5
                THEN req'[w].pc = "lock"
                ELSE /\ req'[w].pc = "done"
                     /\ req'[w].resp.status = 400
                     /\ StoreAndCounterUnchanged
          /\ (Issues(w) /\ rows' # rows)
             => /\ req[w].payload.rating \in 1..5
                /\ req'[w].resp.status = 200
                /\ req'[w].resp.body = JSONSuccessID(idCounter')]_vars

C6_Witness ==
    \E w, v \in Workers :
       /\ req[w].pc = "done" /\ req[w].method = "POST"
       /\ req[w].payload.rating \in {0, 6} /\ req[w].resp.status = 400
       /\ req[v].pc = "unlock" /\ req[v].method = "POST"
       /\ req[v].payload.rating \in {1, 5} /\ req[v].resp.status = 200

\* C7: the stored reviews have pairwise distinct ids and each has a rating
\* between 1 and 5.
C7_UniqueIdsValidRatings ==
    /\ \A r1, r2 \in rows : r1.id = r2.id => r1 = r2
    /\ \A r \in rows : 1 <= r.rating /\ r.rating <= 5

C7_Witness ==
    /\ Cardinality(rows) = 2
    /\ {r.rating : r \in rows} = {1, 5}

C9_DeleteOfAbsentIdFails ==
    [][\A w \in Workers :
          (Deletes(w) /\ req[w].payload.id \notin RowIds(rows))
          => /\ req'[w].resp.status = 500
             /\ StoreAndCounterUnchanged]_vars

C9_Witness ==
    \E w \in Workers :
       /\ req[w].pc = "unlock" /\ req[w].method = "DELETE"
       /\ req[w].payload.id \notin (Range(issued) \cup prevIssued)
       /\ rows # {}
       /\ req[w].resp.status = 500
       /\ req[w].resp.body.text = NotFoundText

\* C10: an OPTIONS request on either path is answered by withCORS alone:
\* 200, no body, the three CORS headers, no handler and no lock, and the
\* table and the counter unchanged.
C10_PreflightAnsweredByCORS ==
    [][\A w \in Workers :
          /\ (Arrives(w) /\ req'[w].method = "OPTIONS")
             => /\ req'[w].pc = "done"
                /\ req'[w].resp = [status |-> 200, body |-> NoBody,
                                   headers |-> CORSHeaders]
                /\ mutex' = mutex
                /\ StoreAndCounterUnchanged
          /\ (req[w].pc = "done" /\ req[w].method = "OPTIONS")
             => /\ req'[w].pc \in {"done", "idle"}
                /\ mutex' # w]_vars

C10_Witness ==
    \E w, v \in Workers :
       /\ req[w].pc = "done" /\ req[w].method = "OPTIONS"
       /\ req[w].path = "/reviews" /\ req[w].resp.status = 200
       /\ req[v].pc = "done" /\ req[v].method = "OPTIONS"
       /\ req[v].path = "/delete-review" /\ req[v].resp.status = 200

\* C11: a request on /reviews with a method other than GET, POST or OPTIONS,
\* or on /delete-review with a method other than DELETE or OPTIONS, answers
\* 405 at once and changes neither the table nor the counter.
C11_OtherMethodsNotAllowed ==
    [][\A w \in Workers :
          (/\ Arrives(w)
           /\ \/ req'[w].path = "/reviews"
                 /\ req'[w].method \notin {"GET", "POST", "OPTIONS"}
              \/ req'[w].path = "/delete-review"
                 /\ req'[w].method \notin {"DELETE", "OPTIONS"})
          => /\ req'[w].pc = "done"
             /\ req'[w].resp.status = 405
             /\ CORSHeaders \subseteq req'[w].resp.headers
             /\ mutex' = mutex
             /\ StoreAndCounterUnchanged]_vars

C11_Witness ==
    \E w, v \in Workers :
       /\ req[w].pc = "done" /\ req[w].path = "/reviews"
       /\ req[w].method \in {"PUT", "DELETE"} /\ req[w].resp.status = 405
       /\ req[v].pc = "done" /\ req[v].path = "/delete-review"
       /\ req[v].method \in {"GET", "POST", "PUT"} /\ req[v].resp.status = 405

\* C12: at most one request is between mutex.Lock() and mutex.Unlock(), and
\* it is the holder of the mutex; so no create reads or advances the counter
\* while another request holds the lock.
InSection(w) == req[w].pc \in {"cs", "save", "unlock"}

C12_MutualExclusion ==
    /\ \A w, v \in Workers : (InSection(w) /\ InSection(v)) => w = v
    /\ \A w \in Workers : InSection(w) => mutex = w

C12_Witness ==
    \E w, v \in Workers :
       /\ w # v
       /\ req[w].pc = "save" /\ req[w].method = "POST"
       /\ req[v].pc = "lock" /\ req[v].method = "POST"

\* C13: a create whose insert fails answers 500 and leaves the table as it
\* was, while the counter stays advanced by one; the id taken by any create
\* is one that no earlier create of this process lifetime was given.
C13_FailedInsertConsumesId ==
    [][\A w \in Workers :
          /\ (Issues(w) /\ rows' = rows)
             => /\ req'[w].resp.status = 500
                /\ seq' = seq
                /\ idCounter' = idCounter + 1
          /\ Issues(w) => idCounter' \notin Range(issued)]_vars

C13_Witness ==
    /\ Len(issued) = 2
    /\ RowIds(rows) = {1}
    /\ \E c \in created : c.ret = 2
    /\ \E w \in Workers :
          req[w].pc = "unlock" /\ req[w].method = "POST" /\ req[w].resp.status = 200

\* C14: a create with an unparseable body or a rating outside 1..5, and a
\* delete with an unparseable body, answer 400 before mutex.Lock(): the
\* mutex, the table and the counter are untouched, and the request never
\* gets the mutex afterwards.
ClientInputError(r) ==
    \/ r.method = "POST" /\ r.path = "/reviews"
       /\ (r.payload.malformed \/ r.payload.rating \notin 1..5)
    \/ r.method = "DELETE" /\ r.path = "/delete-review" /\ r.payload.malformed

C14_ClientErrorTouchesNothing ==
    [][\A w \in Workers :
          /\ (Arrives(w) /\ ClientInputError(req'[w]))
             => /\ req'[w].pc = "done"
                /\ req'[w].resp.status = 400
                /\ mutex' = mutex
                /\ StoreAndCounterUnchanged
          /\ (req[w].pc = "done" /\ ClientInputError(req[w]))
             => /\ req'[w].pc \in {"done", "idle"}
                /\ mutex' # w]_vars

C14_Witness ==
    \E w, v \in Workers :
       /\ req[w].pc = "done" /\ req[w].method = "POST"
       /\ req[w].payload.malformed /\ req[w].resp.status = 400
       /\ req[v].pc = "done" /\ req[v].method = "DELETE"
       /\ req[v].payload.malformed /\ req[v].resp.status = 400
       /\ mutex = 0

\* C15: with the goroutines scheduled fairly and the mutex handed to its
\* waiters, every request that reaches mutex.Lock() gets its response
\* written, on the success path and on every error path, and then gives the
\* mutex back and returns.
C15_RequestsCompleteAndUnlock ==
    \A w \in Workers :
       /\ (req[w].pc \in {"lock", "cs", "save"})
             ~> (req[w].pc = "unlock" /\ req[w].resp.status \in {200, 500})
       /\ (req[w].pc = "unlock") ~> (req[w].pc = "idle" /\ mutex # w)

C15_Witness ==
    \E w, v \in Workers :
       /\ req[w].pc = "unlock" /\ req[w].resp.status = 500 /\ mutex = w
       /\ req[v].pc = "lock"

\* C16: when main has run, at the first start and after every restart, the
\* counter is the highest id stored in the table, or 0 when the table is
\* empty.
HighestStoredId(t) == IF t = {} THEN 0 ELSE SetMax(RowIds(t))

C16_CounterSeededFromStore ==
    /\ idCounter = HighestStoredId(rows)
    /\ [][Restart => idCounter' = HighestStoredId(rows')]_vars

C16_Witness ==
    /\ \A w \in Workers : req[w] = Idle
    /\ issued = <<>>
    /\ prevIssued = {1, 2}
    /\ RowIds(rows) = {2}
    /\ idCounter = 2

\* C17: a stored review is never changed in place: in every step each row
\* either stays in the table exactly as it is, or is removed by a delete
\* request for its own id.
C17_NoUpdateInPlace ==
    [][\A r \in rows :
          \/ r \in rows'
          \/ /\ r.id \notin RowIds(rows')
             /\ \E w \in Workers : Deletes(w) /\ req[w].payload.id = r.id]_vars

C17_Witness ==
    /\ RowIds(rows) = {1}
    /\ seq = 2
    /\ prevIssued # {}
    /\ \E w \in Workers :
          req[w].pc = "unlock" /\ req[w].method = "GET" /\ req[w].resp.status = 200

\* C18: a List step changes neither the table nor the counter; a delete
\* step, successful or not, leaves the counter alone, adds no row and
\* removes no row whose id differs from the requested id.
C18_ListAndDeleteFrame ==
    [][\A w \in Workers :
          /\ Lists(w) => StoreAndCounterUnchanged
          /\ Deletes(w)
             => /\ idCounter' = idCounter
                /\ seq' = seq
                /\ rows' \subseteq rows
                /\ \A r \in rows : r.id # req[w].payload.id => r \in rows']_vars

C18_Witness ==
    \E w \in Workers :
       /\ req[w].pc = "unlock" /\ req[w].method = "DELETE"
       /\ req[w].resp.status = 200
       /\ req[w].payload.id = 1
       /\ RowIds(rows) = {2}
       /\ idCounter = 2

====
